---- MODULE Spec2Model ----
(***************************************************************************)
(* Strommarkt-Analyse: the SMARD market-data extractor, the Open-Meteo     *)
(* weather extractor and the CSV merger, as state machines.                *)
(*                                                                         *)
(* Units.  The code holds SMARD timestamps in milliseconds since the Unix  *)
(* epoch.  Every datetime it converts has a whole number of seconds, so    *)
(* the model holds the same timestamps in SECONDS (code value = model      *)
(* value * 1000); 7*24*60*60*1000 ms is 7*24*60*60 s here.  Python         *)
(* integers do not overflow, and no model value leaves the 32-bit range.   *)
(* Latitudes and longitudes are held in tenths of a degree.                *)
(***************************************************************************)
EXTENDS Integers, Sequences, FiniteSets, TLC

VARIABLES
    \* ---- environment of the market-data extractor
    nowDay,               \* the current UTC date, in days since 1970-01-01
    localOffset,          \* UTC offset (s) of the machine's local time zone
    \* ---- SmardDataExtraction.run_pipeline
    pc,                   \* position of run_pipeline
    start_timestamp,      \* get_utc_timestamp_from_date(year, month, day)
    i,                    \* loop index of find_latest_smard_daily_dataset
    requested,            \* candidates requested so far, in request order
    responses,            \* what each request ended in, in request order
    valid_timestamp,      \* <<>> is None, <<t>> is the anchor t
    valid_timestamp_list, \* result of generate_weekly_timestamps
    w,                    \* position of the for loop over the weeks
    fetched,              \* per processed week: whether its two requests succeeded
    \* ---- HistoricalWeatherDataExtraction.run
    wpc,                  \* position of run
    box,                  \* <<lat_min, lat_max, lon_min, lon_max>>
    grid_points,          \* result of get_grid_points
    g,                    \* position of the for loop over grid_points
    dfs,                  \* the list dfs of fetch_germany_average
    truth,                \* per grid point: what its fetch ended in
    combined,             \* the frame pd.concat built: <<[key, df], ...>>
    \* ---- CombineData.merge_csvs_on_time
    mpc,                  \* position of merge_csvs_on_time
    \* ---- shared
    fs,                   \* the files on disk: a set of [path, header, rows]
    dirs,                 \* the folders on disk
    log                   \* what was printed, in order

vars == <<nowDay, localOffset, pc, start_timestamp, i, requested, responses,
          valid_timestamp, valid_timestamp_list, w, fetched,
          wpc, box, grid_points, g, dfs, truth, combined,
          mpc, fs, dirs, log>>

smardVars == <<pc, start_timestamp, i, requested, responses,
               valid_timestamp, valid_timestamp_list, w, fetched>>
weatherVars == <<wpc, box, grid_points, g, dfs, truth, combined>>
envVars == <<nowDay, localOffset>>

(***************************************************************************)
(* Calendar arithmetic of Python's datetime, proleptic Gregorian.          *)
(***************************************************************************)
SecondsPerDay == 24 * 60 * 60

\* datetime(y, m, d) as days since 1970-01-01
DaysFromCivil(y, m, d) ==
    LET yy  == IF m <= 2 THEN y - 1 ELSE y
        era == yy \div 400
        yoe == yy - era * 400
        mp  == IF m > 2 THEN m - 3 ELSE m + 9
        doy == (153 * mp + 2) \div 5 + d - 1
        doe == yoe * 365 + yoe \div 4 - yoe \div 100 + doy
    IN  era * 146097 + doe - 719468

\* days since 1970-01-01 as the date [y, m, d]
CivilFromDays(z) ==
    LET zz  == z + 719468
        era == zz \div 146097
        doe == zz - era * 146097
        yoe == (doe - doe \div 1460 + doe \div 36524 - doe \div 146096) \div 365
        doy == doe - (365 * yoe + yoe \div 4 - yoe \div 100)
        mp  == (5 * doy + 2) \div 153
        d   == doy - (153 * mp + 2) \div 5 + 1
        m   == IF mp < 10 THEN mp + 3 ELSE mp - 9
        y   == yoe + era * 400 + (IF m <= 2 THEN 1 ELSE 0)
    IN  [y |-> y, m |-> m, d |-> d]

\* datetime.weekday(): Monday = 0 ... Sunday = 6 (1970-01-01 was a Thursday)
Weekday(z) == (z + 3) % 7

DaysInMonth(y, m) ==
    LET ny == IF m = 12 THEN y + 1 ELSE y
        nm == IF m = 12 THEN 1 ELSE m + 1
    IN  DaysFromCivil(ny, nm, 1) - DaysFromCivil(y, m, 1)

\* the last Sunday of month m of year y, in days since the epoch
LastSunday(y, m) ==
    LET last == DaysFromCivil(y, m, DaysInMonth(y, m))
    IN  last - ((Weekday(last) + 1) % 7)

\* ZoneInfo("Europe/Berlin"): UTC offset (s) in force at the UTC instant t.
\* Summer time runs from 01:00 UTC of the last Sunday of March to 01:00 UTC
\* of the last Sunday of October.
BerlinOffsetAtUtc(t) ==
    LET y     == CivilFromDays(t \div SecondsPerDay).y
        begin == LastSunday(y, 3) * SecondsPerDay + 3600
        end   == LastSunday(y, 10) * SecondsPerDay + 3600
    IN  IF begin <= t /\ t < end THEN 7200 ELSE 3600

\* UTC offset (s) of Berlin local midnight of the date z (days since epoch);
\* midnight never falls into a transition hour.
BerlinOffsetAtLocalMidnight(z) ==
    LET y == CivilFromDays(z).y
    IN  IF LastSunday(y, 3) < z /\ z <= LastSunday(y, 10) THEN 7200 ELSE 3600

(***************************************************************************)
(* SmardDataExtraction.py                                                  *)
(***************************************************************************)
None == <<>>
Some(x) == <<x>>

get_utc_timestamp_from_date(year, month, day) ==
    LET z == DaysFromCivil(year, month, day)
    IN  z * SecondsPerDay - BerlinOffsetAtLocalMidnight(z)

max_days_back == 14

one_week_ms == 7 * 24 * 60 * 60

\* lines 57-61: "now" floored to the Monday of this week.  datetime.replace
\* raises ValueError when day is not a day of the month.
MondayThisWeek(z) ==
    LET now     == CivilFromDays(z)
        weekday == Weekday(z)
        day     == now.d - weekday
    IN  IF day < 1 \/ day > DaysInMonth(now.y, now.m)
        THEN [raised |-> TRUE, now_ts |-> 0]
        ELSE [raised |-> FALSE,
              now_ts |-> DaysFromCivil(now.y, now.m, day) * SecondsPerDay]

\* lines 63-66: the while loop
RECURSIVE WeeklyLoop(_, _, _)
WeeklyLoop(ts, now_ts, results) ==
    IF ts <= now_ts
    THEN WeeklyLoop(ts + one_week_ms, now_ts, Append(results, ts))
    ELSE results

generate_weekly_timestamps(start, z) ==
    LET monday == MondayThisWeek(z)
    IN  IF monday.raised
        THEN [raised |-> TRUE, results |-> <<>>]
        ELSE [raised |-> FALSE,
              results |-> WeeklyLoop(start, monday.now_ts, <<>>)]


\* ---- the files on disk -------------------------------------------------
Exists(files, path) == \E f \in files : f.path = path

ReadFile(files, path) == CHOOSE f \in files : f.path = path

\* DataFrame.to_csv(path): creates the file or replaces its contents
WriteFile(files, file) == {f \in files : f.path # file.path} \cup {file}

\* a table cell: a number, or missing (NaN / NaT / an empty CSV field)
Cell(v) == [na |-> FALSE, v |-> v]
NA == [na |-> TRUE, v |-> 0]

RECURSIVE SortedSeq(_)
SortedSeq(S) ==
    IF S = {} THEN <<>>
    ELSE LET m == CHOOSE x \in S : \A y \in S : x <= y
         IN  <<m>> \o SortedSeq(S \ {m})

Pad2(n) == IF n < 10 THEN "0" \o ToString(n) ELSE ToString(n)

\* a fetch that answers a failed request with the empty series
EmptyOnError(response) == Some(response.series)

\* lines 87-95: what get_smard_timeseries returns for what the request ended
\* in: the "series" list of a 200 answer, None for every RequestException
\* (raise_for_status on a non-200 answer, a timeout, a connection error)
get_smard_timeseries(response) ==
    IF response.kind = "ok" THEN Some(response.series) ELSE None

\* lines 107-119: the dictionary keyed by timestamp, as sorted rows.  A later
\* point of a series with the same timestamp overwrites an earlier one.
LastValue(data, ts) ==
    LET idx == {k \in 1..Len(data) : data[k].ts = ts}
    IN  IF idx = {} THEN NA
        ELSE LET k == CHOOSE x \in idx : \A y \in idx : y <= x
             IN  IF data[k].na THEN NA ELSE Cell(data[k].v)

SeriesKeys(data) == {data[k].ts : k \in 1..Len(data)}

datasets_to_csv(prices, demands, csv_filename) ==
    LET keys    == SortedSeq(SeriesKeys(prices) \cup SeriesKeys(demands))
        columns == (IF prices # <<>> THEN <<"price (MWh)">> ELSE <<>>)
                   \o (IF demands # <<>> THEN <<"demand (MW)">> ELSE <<>>)
        row(ts) ==
            [c \in {"timestamp", "datetime_berlin", "price (MWh)", "demand (MW)"}
                |-> CASE c = "timestamp" -> Cell(ts)
                      [] c = "datetime_berlin" -> Cell(ts + BerlinOffsetAtUtc(ts))
                      [] c = "price (MWh)" -> LastValue(prices, ts)
                      [] OTHER -> LastValue(demands, ts)]
    IN  [path   |-> csv_filename,
         header |-> <<"timestamp", "datetime_berlin">> \o columns,
         rows   |-> [k \in 1..Len(keys) |-> row(keys[k])]]

\* line 151, 157: the file of the week ts, named by the machine's local date
WeekFileName(ts, offset) ==
    LET monday == CivilFromDays((ts + offset) \div SecondsPerDay)
    IN  "smard_data/data_" \o ToString(monday.y) \o "_" \o Pad2(monday.m)
        \o "_" \o Pad2(monday.d) \o ".csv"

\* ---- what the SMARD API can answer ---------------------------------------
MaxSeriesLen == 1

\* a series of n hourly points from ts on; the second value is null
ApiSeries(ts, n, v) ==
    [k \in 1..n |-> [ts |-> ts + (k - 1) * 3600, na |-> (k = 2), v |-> v + k]]

ApiResponses(ts, v) ==
    {[kind |-> "ok", series |-> ApiSeries(ts, n, v)] : n \in 0..MaxSeriesLen}
    \cup {[kind |-> "http_error", series |-> <<>>],
          [kind |-> "connection_error", series |-> <<>>]}

\* ---- run_pipeline --------------------------------------------------------
\* a probe that walks forward in time
CandidateForward(start, k) == start + k * SecondsPerDay

\* line 31: the candidate of iteration k
Candidate(start, k) == start - k * SecondsPerDay

\* lines 29-36: one iteration of the probing loop.  requests.get is not
\* inside a try: a timeout or connection error leaves run_pipeline.
Probe ==
    /\ pc = "probe"
    /\ i < max_days_back
    /\ LET timestamp_ms == Candidate(start_timestamp, i)
       IN  /\ requested' = Append(requested, timestamp_ms)
           /\ \E outcome \in {"200", "non200", "exception"} :
                /\ responses' = Append(responses, outcome)
                /\ CASE outcome = "200" ->
                          /\ valid_timestamp' = Some(timestamp_ms)
                          /\ pc' = "enumerate"
                          /\ i' = i
                     [] outcome = "non200" ->
                          /\ i' = i + 1
                          /\ UNCHANGED <<valid_timestamp, pc>>
                     [] OTHER ->
                          /\ pc' = "raised"
                          /\ UNCHANGED <<valid_timestamp, i>>
    /\ UNCHANGED <<start_timestamp, valid_timestamp_list, w, fetched,
                   fs, dirs, log, mpc>>
    /\ UNCHANGED envVars /\ UNCHANGED weatherVars

\* lines 38-39 and 143-145: no candidate answered 200
ProbeExhausted ==
    /\ pc = "probe"
    /\ i >= max_days_back
    /\ valid_timestamp' = None
    /\ log' = log \o <<"No daily dataset found", "No valid dataset found.">>
    /\ pc' = "done"
    /\ UNCHANGED <<start_timestamp, i, requested, responses,
                   valid_timestamp_list, w, fetched, fs, dirs, mpc>>
    /\ UNCHANGED envVars /\ UNCHANGED weatherVars

\* line 148: generate_weekly_timestamps(valid_timestamp)
Enumerate ==
    /\ pc = "enumerate"
    /\ LET r == generate_weekly_timestamps(valid_timestamp[1], nowDay)
       IN  IF r.raised
           THEN /\ pc' = "raised"
                /\ UNCHANGED <<valid_timestamp_list, w>>
           ELSE /\ valid_timestamp_list' = r.results
                /\ w' = 1
                /\ pc' = "weeks"
    /\ UNCHANGED <<start_timestamp, i, requested, responses, valid_timestamp,
                   fetched, fs, dirs, log, mpc>>
    /\ UNCHANGED envVars /\ UNCHANGED weatherVars

\* lines 150-165: one iteration of the loop over the weeks
ProcessWeek ==
    /\ pc = "weeks"
    /\ w <= Len(valid_timestamp_list)
    /\ LET ts        == valid_timestamp_list[w]
           file_name == WeekFileName(ts, localOffset)
       IN  \E rp \in ApiResponses(ts, 4000), rd \in ApiResponses(ts, 5000) :
             LET prices  == get_smard_timeseries(rp)
                 demands == get_smard_timeseries(rd)
                 errors  == (IF prices = None THEN <<"Error fetching data">> ELSE <<>>)
                            \o (IF demands = None THEN <<"Error fetching data">> ELSE <<>>)
             IN  /\ fetched' = Append(fetched,
                        [ts |-> ts, file |-> file_name,
                         prices |-> rp.kind = "ok", demands |-> rd.kind = "ok"])
                 /\ dirs' = dirs \cup {"smard_data"}
                 /\ IF prices # None /\ demands # None
                    THEN /\ fs' = WriteFile(fs,
                                    datasets_to_csv(prices[1], demands[1], file_name))
                         /\ log' = log \o errors \o <<"CSV saved to " \o file_name>>
                    ELSE /\ fs' = fs
                         /\ log' = log \o errors
                                   \o <<"Oops, something went wrong for " \o file_name>>
    /\ w' = w + 1
    /\ UNCHANGED <<pc, start_timestamp, i, requested, responses,
                   valid_timestamp, valid_timestamp_list, mpc>>
    /\ UNCHANGED envVars /\ UNCHANGED weatherVars

\* the for loop is exhausted: run_pipeline returns
WeeksDone ==
    /\ pc = "weeks"
    /\ w > Len(valid_timestamp_list)
    /\ pc' = "done"
    /\ UNCHANGED <<start_timestamp, i, requested, responses, valid_timestamp,
                   valid_timestamp_list, w, fetched, fs, dirs, log, mpc>>
    /\ UNCHANGED envVars /\ UNCHANGED weatherVars

SmardNext == Probe \/ ProbeExhausted \/ Enumerate \/ ProcessWeek \/ WeeksDone

(***************************************************************************)
(* HistoricalWeatherDataExtraction.py                                      *)
(***************************************************************************)
\* the 2.0 of lines 9-10, in tenths of a degree
GridStep == 20

CeilDiv(a, b) == (a + b - 1) \div b

\* a range that includes the stop value
ArangeInclusive(start, stop, step) ==
    [k \in 1..(IF stop > start THEN (stop - start) \div step + 1 ELSE 0)
        |-> start + (k - 1) * step]

\* np.arange(start, stop, step): ceil((stop - start) / step) values
\* start + k * step, none when stop <= start
arange(start, stop, step) ==
    [k \in 1..(IF stop > start THEN CeilDiv(stop - start, step) ELSE 0)
        |-> start + (k - 1) * step]

\* line 11: [(lat, lon) for lat in lat_points for lon in lon_points]
get_grid_points(lat_min, lat_max, lon_min, lon_max) ==
    LET lat_points == arange(lat_min, lat_max, GridStep)
        lon_points == arange(lon_min, lon_max, GridStep)
        nlon       == Len(lon_points)
    IN  [k \in 1..(Len(lat_points) * nlon) |->
            <<lat_points[(k - 1) \div nlon + 1], lon_points[((k - 1) % nlon) + 1]>>]

\* ---- what the weather API can answer --------------------------------------
NumHours == 2

WeatherVariables == <<"temperature_2m", "wind_speed_100m", "shortwave_radiation">>

\* local (Berlin wall clock) time of the h-th hour of start_date 2025-09-01
HourTime(h) == DaysFromCivil(2025, 9, 1) * SecondsPerDay + (h - 1) * 3600

PointValues == {10, 30}

\* lines 27-30: the frame of one grid point, indexed by time.  The columns of
\* a point whose base value is b hold b + 100 * (column number) + hour.
PointFrame(b) ==
    [h \in 1..NumHours |->
        [time |-> HourTime(h),
         values |-> [c \in 1..Len(WeatherVariables) |-> b + 100 * c + h]]]

FetchOutcomes ==
    {[ok |-> TRUE, df |-> PointFrame(b)] : b \in PointValues}
    \cup {[ok |-> FALSE, df |-> <<>>]}

\* least common multiple of 1..n: means of at most n integers are held
\* exactly, in units of 1 / MeanUnit(n)
RECURSIVE Gcd(_, _)
Gcd(a, b) == IF b = 0 THEN a ELSE Gcd(b, a % b)

RECURSIVE MeanUnit(_)
MeanUnit(n) ==
    IF n <= 1 THEN 1
    ELSE LET u == MeanUnit(n - 1) IN (u * n) \div Gcd(u, n)

RECURSIVE SumSeq(_)
SumSeq(s) == IF s = <<>> THEN 0 ELSE s[1] + SumSeq(Tail(s))

\* DataFrame.mean(axis=1) over the columns vals, in units of 1 / unit
Mean(vals, unit) == (SumSeq(vals) * unit) \div Len(vals)

\* lines 44-48: the mean across the frames of `frame`, per time and variable
Average(frame, unit) ==
    [h \in 1..NumHours |->
        [time |-> HourTime(h),
         values |-> [c \in 1..Len(WeatherVariables) |->
                        Mean([k \in 1..Len(frame) |-> frame[k].df[h].values[c]],
                             unit)]]]

\* lines 56-59: the CSV of the averaged frame, indexed by time_berlin
WeatherCsv(avg_df) ==
    [path   |-> "weather_data/weather_avg_data.csv",
     header |-> <<"time_berlin">> \o WeatherVariables,
     rows   |-> [h \in 1..Len(avg_df) |->
                    [c \in {"time_berlin"} \cup {WeatherVariables[n] : n \in 1..3}
                        |-> IF c = "time_berlin" THEN Cell(avg_df[h].time)
                            ELSE Cell(avg_df[h].values[
                                    CHOOSE n \in 1..3 : WeatherVariables[n] = c])]]]

\* line 53
GetGridPoints ==
    /\ wpc = "start"
    /\ grid_points' = get_grid_points(box[1], box[2], box[3], box[4])
    /\ g' = 1
    /\ wpc' = "fetch"
    /\ UNCHANGED <<box, dfs, truth, combined, mpc, fs, dirs, log>>
    /\ UNCHANGED envVars /\ UNCHANGED smardVars

\* lines 35-40: one iteration of the loop over the grid points
FetchPoint ==
    /\ wpc = "fetch"
    /\ g <= Len(grid_points)
    /\ \E outcome \in FetchOutcomes :
         /\ truth' = Append(truth, outcome)
         /\ IF outcome.ok
            THEN /\ dfs' = Append(dfs, outcome.df)
                 /\ log' = log
            ELSE /\ dfs' = dfs
                 /\ log' = Append(log, "Failed at grid point")
    /\ g' = g + 1
    /\ UNCHANGED <<wpc, box, grid_points, combined, mpc, fs, dirs>>
    /\ UNCHANGED envVars /\ UNCHANGED smardVars

\* line 42: pd.concat(dfs, axis=1, keys=<one key per grid point>).  It raises
\* ValueError for an empty dfs.  With more keys than frames the outcome
\* depends on the pandas release: older releases pair keys and frames up to
\* the shorter of the two, newer ones raise ValueError.
ConcatOutcomes(frames, keys) ==
    IF frames = <<>> THEN {[raised |-> TRUE, frame |-> <<>>]}
    ELSE {[raised |-> FALSE,
           frame |-> [k \in 1..Len(frames) |-> [key |-> keys[k], df |-> frames[k]]]]}
         \cup (IF Len(frames) # Len(keys)
               THEN {[raised |-> TRUE, frame |-> <<>>]} ELSE {})

\* lines 42-50 and 56-60: combine, average, write the CSV
CombineAndWrite ==
    /\ wpc = "fetch"
    /\ g > Len(grid_points)
    /\ \E c \in ConcatOutcomes(dfs, grid_points) :
         IF c.raised
         THEN /\ wpc' = "raised"
              /\ UNCHANGED <<combined, fs, dirs, log>>
         ELSE /\ combined' = c.frame
              /\ dirs' = dirs \cup {"weather_data"}
              /\ fs' = WriteFile(fs,
                          WeatherCsv(Average(c.frame, MeanUnit(Len(grid_points)))))
              /\ log' = Append(log, "CSV saved to weather_data/weather_avg_data.csv")
              /\ wpc' = "done"
    /\ UNCHANGED <<box, grid_points, g, dfs, truth, mpc>>
    /\ UNCHANGED envVars /\ UNCHANGED smardVars

WeatherNext == GetGridPoints \/ FetchPoint \/ CombineAndWrite

(***************************************************************************)
(* CombineData.py                                                          *)
(***************************************************************************)
smard_file == "smard_data/combined_smard_data.csv"
weather_data == "weather_data/weather_avg_data.csv"
output_file == "merged.csv"
JoinColumn == "time_berlin"

SeqToSet(s) == {s[k] : k \in 1..Len(s)}

RECURSIVE Flatten(_)
Flatten(ss) == IF ss = <<>> THEN <<>> ELSE ss[1] \o Flatten(Tail(ss))

\* the indices of S in ascending order
Ascending(S) == SortedSeq(S)

\* pd.merge(left, right, on=JoinColumn, how="outer", sort=True): one group
\* per key value, the groups in ascending key order with the missing key
\* last; within a group every left row paired with every right row, and a
\* row of one side alone when the other side has no row of that key (its
\* columns missing).  Rows whose key is missing match each other.  A column
\* name both sides have gets the suffixes _x and _y.
OuterMerge(left, right) ==
    LET lothers == SelectSeq(left.header, LAMBDA c : c # JoinColumn)
        rothers == SelectSeq(right.header, LAMBDA c : c # JoinColumn)
        lname(c) == IF c \in SeqToSet(rothers) THEN c \o "_x" ELSE c
        rname(c) == IF c \in SeqToSet(lothers) THEN c \o "_y" ELSE c
        header  == <<JoinColumn>>
                   \o [k \in 1..Len(lothers) |-> lname(lothers[k])]
                   \o [k \in 1..Len(rothers) |-> rname(rothers[k])]
        lkey(a) == left.rows[a][JoinColumn]
        rkey(b) == right.rows[b][JoinColumn]
        cells   == {lkey(a) : a \in 1..Len(left.rows)}
                   \cup {rkey(b) : b \in 1..Len(right.rows)}
        present == SortedSeq({c.v : c \in {x \in cells : ~x.na}})
        groups  == [k \in 1..Len(present) |-> Cell(present[k])]
                   \o (IF NA \in cells THEN <<NA>> ELSE <<>>)
        joined(key, a, b) ==
            [c \in SeqToSet(header) |->
                IF c = JoinColumn THEN key
                ELSE IF \E n \in 1..Len(lothers) : lname(lothers[n]) = c
                     THEN IF a = 0 THEN NA
                          ELSE left.rows[a][CHOOSE x \in SeqToSet(lothers) : lname(x) = c]
                     ELSE IF b = 0 THEN NA
                          ELSE right.rows[b][CHOOSE x \in SeqToSet(rothers) : rname(x) = c]]
        group(key) ==
            LET ls == Ascending({a \in 1..Len(left.rows) : lkey(a) = key})
                rs == Ascending({b \in 1..Len(right.rows) : rkey(b) = key})
            IN  IF rs = <<>> THEN [n \in 1..Len(ls) |-> joined(key, ls[n], 0)]
                ELSE IF ls = <<>> THEN [n \in 1..Len(rs) |-> joined(key, 0, rs[n])]
                ELSE Flatten([n \in 1..Len(ls) |->
                        [m \in 1..Len(rs) |-> joined(key, ls[n], rs[m])]])
    IN  [header |-> header,
         rows   |-> Flatten([k \in 1..Len(groups) |-> group(groups[k])])]

\* a merge that keeps the incomplete rows
KeepAllRows(frame) == frame

\* line 43: DataFrame.dropna()
dropna(frame) ==
    [header |-> frame.header,
     rows   |-> SelectSeq(frame.rows, LAMBDA r : \A c \in DOMAIN r : ~r[c].na)]

\* an absent input answered by writing an empty merged.csv
WriteEmptyOutput(files) ==
    [mpc |-> "not_found",
     fs  |-> WriteFile(files, [path |-> output_file, header |-> <<>>, rows |-> <<>>])]

\* lines 25-28: an input is absent: FileNotFoundError, nothing else happens
RaiseNotFound(files) == [mpc |-> "not_found", fs |-> files]

\* lines 25-47 on the files `files`: how the call ends and the files after it
merge_csvs_on_time(files) ==
    IF ~Exists(files, smard_file) \/ ~Exists(files, weather_data)
    THEN RaiseNotFound(files)
    ELSE LET df_smard   == ReadFile(files, smard_file)
             df_weather == ReadFile(files, weather_data)
         IN  IF \/ JoinColumn \notin SeqToSet(df_smard.header)
                \/ JoinColumn \notin SeqToSet(df_weather.header)
             THEN [mpc |-> "missing_column", fs |-> files]
             ELSE LET merged_clean == dropna(OuterMerge(df_smard, df_weather))
                  IN  [mpc |-> "done",
                       fs  |-> WriteFile(files,
                                  [path   |-> output_file,
                                   header |-> merged_clean.header,
                                   rows   |-> merged_clean.rows])]

\* lines 16-47: one call of merge_csvs_on_time
MergeCsvsOnTime ==
    /\ mpc = "start"
    /\ dirs' = dirs \cup {"smard_data", "weather_data"}
    /\ LET r == merge_csvs_on_time(fs)
       IN  /\ mpc' = r.mpc
           /\ fs' = r.fs
           /\ log' = IF r.mpc = "done" THEN Append(log, "Merged") ELSE log
    /\ UNCHANGED envVars /\ UNCHANGED smardVars /\ UNCHANGED weatherVars

\* ---- the parts of the state a specification leaves idle -------------------
SmardIdle ==
    /\ pc = "idle" /\ start_timestamp = 0 /\ i = 0
    /\ requested = <<>> /\ responses = <<>>
    /\ valid_timestamp = None /\ valid_timestamp_list = <<>>
    /\ w = 0 /\ fetched = <<>>

WeatherIdle ==
    /\ wpc = "idle" /\ box = <<0, 0, 0, 0>> /\ grid_points = <<>> /\ g = 0
    /\ dfs = <<>> /\ truth = <<>> /\ combined = <<>>

MergeIdle == mpc = "idle"

DiskEmpty == fs = {} /\ dirs = {} /\ log = <<>>

\* ---- generate_weekly_timestamps alone -------------------------------------
\* Anchors: the candidates of the start date 2025-09-02 (line 171).  Current
\* dates: WeeklyNowSpan + 1 consecutive days from 2025-08-15 on.
WeeklyNowSpan == 60

WeeklyAnchors ==
    {get_utc_timestamp_from_date(2025, 9, 2) - k * SecondsPerDay :
        k \in 0..(max_days_back - 1)}

WeeklyNowDays ==
    {DaysFromCivil(2025, 8, 15) + k : k \in 0..WeeklyNowSpan}

InitWeekly ==
    /\ nowDay \in WeeklyNowDays
    /\ localOffset = 0
    /\ pc = "enumerate"
    /\ \E T \in WeeklyAnchors :
         /\ start_timestamp = T
         /\ valid_timestamp = Some(T)
    /\ i = 0 /\ requested = <<>> /\ responses = <<>>
    /\ valid_timestamp_list = <<>> /\ w = 0 /\ fetched = <<>>
    /\ WeatherIdle /\ MergeIdle /\ DiskEmpty

NextWeekly == Enumerate

SpecWeekly == InitWeekly /\ [][NextWeekly]_vars


\* ---- run_pipeline as a whole ----------------------------------------------
\* Start dates: the one of line 171 and one at the end of a month.  Current
\* dates: the start date and the SmardNowSpan days after it.
SmardNowSpan == 7

StartDates == {<<2025, 9, 2>>, <<2025, 9, 29>>}

LocalOffsets == {0, 7200}

InitSmard ==
    /\ \E sd \in StartDates :
         /\ start_timestamp = get_utc_timestamp_from_date(sd[1], sd[2], sd[3])
         /\ nowDay \in {DaysFromCivil(sd[1], sd[2], sd[3]) + k : k \in 0..SmardNowSpan}
    /\ localOffset \in LocalOffsets
    /\ pc = "probe" /\ i = 0
    /\ requested = <<>> /\ responses = <<>>
    /\ valid_timestamp = None /\ valid_timestamp_list = <<>>
    /\ w = 0 /\ fetched = <<>>
    /\ WeatherIdle /\ MergeIdle /\ DiskEmpty

SpecSmard == InitSmard /\ [][SmardNext]_vars


(***************************************************************************)
(* Properties of the market-data extractor                                 *)
(***************************************************************************)
\* 00:00 UTC of the Monday of the week of the date z
TrueMondayTs(z) == (z - Weekday(z)) * SecondsPerDay

\* generate_weekly_timestamps has been called and has ended
EnumerateEnded == pc \in {"weeks", "done"} \/ (pc = "raised" /\ valid_timestamp # None)

\* C2: generate_weekly_timestamps returns, for any anchor T and any current
\* date, exactly T + k * one week for k = 0, 1, ... without gaps, every element
\* at most this week's Monday 00:00 UTC and the next one beyond it (the empty
\* list when T is after that Monday).
C2_WeeklyProgression ==
    EnumerateEnded =>
        /\ pc # "raised"
        /\ \A k \in 1..Len(valid_timestamp_list) :
              /\ valid_timestamp_list[k] = valid_timestamp[1] + (k - 1) * one_week_ms
              /\ valid_timestamp_list[k] <= TrueMondayTs(nowDay)
        /\ valid_timestamp[1] + Len(valid_timestamp_list) * one_week_ms
              > TrueMondayTs(nowDay)

\* C9: for every current UTC date the upper bound "now" is computed without
\* error and is 00:00 UTC of the Monday of the current week, also when that
\* Monday lies in the previous month.
C9_MondayFloor ==
    EnumerateEnded =>
        /\ pc # "raised"
        /\ ~MondayThisWeek(nowDay).raised
        /\ MondayThisWeek(nowDay).now_ts = TrueMondayTs(nowDay)

\* find_latest_smard_daily_dataset has returned (a value or None)
ProbeReturned == pc \in {"enumerate", "weeks", "done"} \/ valid_timestamp # None

\* C3: the candidates are requested in the order start, start - 1 day,
\* start - 2 days, ... (at most max_days_back of them); nothing is requested
\* after a candidate answered 200; the result is the first candidate that
\* answered 200, and None when all max_days_back candidates were requested and
\* none answered 200.
C3_FirstAnswering ==
    /\ Len(requested) <= max_days_back
    /\ Len(responses) = Len(requested)
    /\ \A k \in 1..Len(requested) :
          /\ requested[k] = start_timestamp - (k - 1) * SecondsPerDay
          /\ k < Len(requested) => responses[k] # "200"
    /\ ProbeReturned =>
          IF \E k \in 1..Len(responses) : responses[k] = "200"
          THEN /\ responses[Len(responses)] = "200"
               /\ valid_timestamp = Some(requested[Len(requested)])
          ELSE /\ valid_timestamp = None
               /\ Len(requested) = max_days_back

\* C3 witness: the third candidate answered 200 after two that did not
C3_Witness ==
    /\ pc = "enumerate"
    /\ responses = <<"non200", "non200", "200">>
    /\ valid_timestamp = Some(start_timestamp - 2 * SecondsPerDay)

\* C4: a candidate whose request ended in a non-200 answer or in a timeout or
\* connection error does not abort the discovery: the next older candidate is
\* requested (or, after the last candidate, the discovery returns None).
C4_ProbeContinues ==
    \A k \in 1..Len(responses) :
        responses[k] # "200" =>
            \/ Len(requested) > k
            \/ pc = "probe"
            \/ (k = max_days_back /\ pc = "done")

\* C5: a week's CSV is written if and only if both of its fetches succeeded;
\* a failed week is logged and skipped, and every later week is processed.
C5_WeekWrittenIffBoth ==
    /\ Len(fetched) <= Len(valid_timestamp_list)
    /\ pc = "weeks" => Len(fetched) = w - 1
    /\ (pc = "done" /\ valid_timestamp # None) =>
            Len(fetched) = Len(valid_timestamp_list)
    /\ \A k \in 1..Len(fetched) :
          LET f == fetched[k]
              said(msg) == \E n \in 1..Len(log) : log[n] = msg
          IN  /\ f.ts = valid_timestamp_list[k]
              /\ Exists(fs, f.file) <=> (f.prices /\ f.demands)
              /\ said("CSV saved to " \o f.file) <=> (f.prices /\ f.demands)
              /\ said("Oops, something went wrong for " \o f.file)
                    <=> ~(f.prices /\ f.demands)

\* C5 witness: a week whose fetch failed was skipped and a later week written
C5_Witness ==
    /\ pc = "done"
    /\ \E a, b \in 1..Len(fetched) :
          /\ a < b
          /\ ~fetched[a].prices /\ fetched[a].demands
          /\ fetched[b].prices /\ fetched[b].demands
          /\ ~Exists(fs, fetched[a].file)
          /\ Exists(fs, fetched[b].file)


(***************************************************************************)
(* The weather extractor                                                   *)
(***************************************************************************)
EnvIdle == nowDay = 0 /\ localOffset = 0

\* get_grid_points alone: boxes of every extent from 0.1 degree to
\* GridMaxExtent tenths of a degree, in both directions
GridMaxExtent == 45

GridMins == {<<472, 59>>, <<-15, -30>>}

InitGrid ==
    /\ wpc = "start"
    /\ \E m \in GridMins, dlat \in 1..GridMaxExtent, dlon \in 1..GridMaxExtent :
         box = <<m[1], m[1] + dlat, m[2], m[2] + dlon>>
    /\ grid_points = <<>> /\ g = 0 /\ dfs = <<>> /\ truth = <<>> /\ combined = <<>>
    /\ EnvIdle /\ SmardIdle /\ MergeIdle /\ DiskEmpty

SpecGrid == InitGrid /\ [][GetGridPoints]_vars

\* run: boxes of one to MaxGridSide points a side
MaxGridSide == 2

InitWeather ==
    /\ wpc = "start"
    /\ \E nlat \in 1..MaxGridSide, nlon \in 1..MaxGridSide :
         box = <<472, 472 + nlat * GridStep - 1, 59, 59 + nlon * GridStep - 9>>
    /\ grid_points = <<>> /\ g = 0 /\ dfs = <<>> /\ truth = <<>> /\ combined = <<>>
    /\ EnvIdle /\ SmardIdle /\ MergeIdle /\ DiskEmpty

SpecWeather == InitWeather /\ [][WeatherNext]_vars

SuccessfulFrames == SelectSeq(truth, LAMBDA o : o.ok)

\* C6: when some fetches fail and at least one succeeds, the run does not
\* abort, every output value is the unweighted mean of the values of exactly
\* the successfully fetched points, and every series stays attributed to the
\* point it was fetched for.
C6_FailedPointsExcluded ==
    (/\ wpc \in {"done", "raised"}
     /\ \E k \in 1..Len(truth) : ~truth[k].ok
     /\ \E k \in 1..Len(truth) : truth[k].ok) =>
        /\ wpc = "done"
        /\ Exists(fs, "weather_data/weather_avg_data.csv")
        /\ LET rows == ReadFile(fs, "weather_data/weather_avg_data.csv").rows
               unit == MeanUnit(Len(grid_points))
           IN  \A h \in 1..NumHours, c \in 1..Len(WeatherVariables) :
                  rows[h][WeatherVariables[c]].v * Len(SuccessfulFrames)
                    = unit * SumSeq([k \in 1..Len(SuccessfulFrames) |->
                                        SuccessfulFrames[k].df[h].values[c]])
        /\ \A n \in 1..Len(combined) :
              \E k \in 1..Len(truth) :
                 /\ truth[k].ok
                 /\ grid_points[k] = combined[n].key
                 /\ truth[k].df = combined[n].df


(***************************************************************************)
(* The merger                                                              *)
(***************************************************************************)
\* merge_csvs_on_time alone: each input absent, or a table of at most
\* MaxRows rows whose keys are among MergeTimes or missing and whose value
\* is present or missing; merged.csv absent or left by an earlier run.
MaxRows == 2

MergeTimes == {HourTime(1), HourTime(2)}

RECURSIVE SeqsUpTo(_, _)
SeqsUpTo(S, n) ==
    IF n = 0 THEN {<<>>}
    ELSE LET shorter == SeqsUpTo(S, n - 1)
         IN  shorter \cup {Append(s, x) : s \in {q \in shorter : Len(q) = n - 1}, x \in S}

TableRows(column) ==
    {(JoinColumn :> key) @@ (column :> val) :
        key \in {Cell(time) : time \in MergeTimes} \cup {NA},
        val \in {Cell(7), NA}}

InputFiles(path, column) ==
    {{}} \cup {{[path |-> path, header |-> <<JoinColumn, column>>, rows |-> rows]} :
                rows \in SeqsUpTo(TableRows(column), MaxRows)}

OldOutput ==
    [path |-> output_file, header |-> <<JoinColumn>>,
     rows |-> <<(JoinColumn :> Cell(1))>>]

InitMerge ==
    /\ mpc = "start"
    /\ \E s \in InputFiles(smard_file, "price (MWh)"),
          m \in InputFiles(weather_data, "temperature_2m"),
          o \in {{}, {OldOutput}} :
         fs = s \cup m \cup o
    /\ dirs = {} /\ log = <<>>
    /\ EnvIdle /\ SmardIdle /\ WeatherIdle

SpecMerge == InitMerge /\ [][MergeCsvsOnTime]_vars

Complete(row) == \A c \in DOMAIN row : ~row[c].na

\* C1: the merged output has a row for a timestamp only if the timestamp
\* occurs in both inputs and no column of the joined row is missing; it has
\* as many rows as there are pairs of complete rows of the two inputs with
\* the same timestamp; its rows are in ascending timestamp order.
C1_MergeInner ==
    mpc = "done" =>
        LET left  == ReadFile(fs, smard_file).rows
            right == ReadFile(fs, weather_data).rows
            out   == ReadFile(fs, output_file).rows
            pairs == {p \in (1..Len(left)) \X (1..Len(right)) :
                        /\ left[p[1]][JoinColumn] = right[p[2]][JoinColumn]
                        /\ Complete(left[p[1]]) /\ Complete(right[p[2]])}
        IN  /\ \A k \in 1..Len(out) :
                  /\ Complete(out[k])
                  /\ \E a \in 1..Len(left) : left[a][JoinColumn] = out[k][JoinColumn]
                  /\ \E b \in 1..Len(right) : right[b][JoinColumn] = out[k][JoinColumn]
            /\ Len(out) = Cardinality(pairs)
            /\ \A k \in 1..(Len(out) - 1) :
                  out[k][JoinColumn].v <= out[k + 1][JoinColumn].v

\* C1 witness: partially overlapping inputs with a missing value: one
\* timestamp is in both inputs and complete, one is in the market table
\* only, one joined row has a missing value
C1_Witness ==
    /\ mpc = "done"
    /\ Len(ReadFile(fs, output_file).rows) = 1
    /\ Len(ReadFile(fs, smard_file).rows) = 2
    /\ Len(ReadFile(fs, weather_data).rows) = 2
    /\ \E a \in 1..2 : \A b \in 1..2 :
          ReadFile(fs, smard_file).rows[a][JoinColumn]
             # ReadFile(fs, weather_data).rows[b][JoinColumn]
    /\ \E b \in 1..2 : ReadFile(fs, weather_data).rows[b]["temperature_2m"].na

\* C8: when the market CSV or the weather CSV is absent the call ends in the
\* not-found error, and no file is created or modified.
C8_NotFound ==
    [][(mpc = "start" /\ (~Exists(fs, smard_file) \/ ~Exists(fs, weather_data)))
          => (mpc' = "not_found" /\ fs' = fs /\ log' = log)]_vars

\* C8 witness: the weather CSV was absent, the call raised and the merged.csv
\* of an earlier run is still there
C8_Witness ==
    /\ mpc = "not_found"
    /\ Exists(fs, smard_file)
    /\ ~Exists(fs, weather_data)
    /\ OldOutput \in fs


(***************************************************************************)
(* The three scripts on one disk                                           *)
(***************************************************************************)
\* One run of each script, started on an empty disk, their steps in any
\* order: run_pipeline(2025, 9, 2) on 2025-09-03, the weather run on a box of
\* two grid points, and merge_csvs_on_time.
InitPipeline ==
    /\ start_timestamp = get_utc_timestamp_from_date(2025, 9, 2)
    /\ nowDay = DaysFromCivil(2025, 9, 3)
    /\ localOffset = 7200
    /\ pc = "probe" /\ i = 0
    /\ requested = <<>> /\ responses = <<>>
    /\ valid_timestamp = None /\ valid_timestamp_list = <<>>
    /\ w = 0 /\ fetched = <<>>
    /\ wpc = "start"
    /\ box = <<472, 472 + 2 * GridStep - 1, 59, 59 + GridStep - 9>>
    /\ grid_points = <<>> /\ g = 0 /\ dfs = <<>> /\ truth = <<>> /\ combined = <<>>
    /\ mpc = "start"
    /\ DiskEmpty

NextPipeline == SmardNext \/ WeatherNext \/ MergeCsvsOnTime

SpecPipeline == InitPipeline /\ [][NextPipeline]_vars

\* the market-data run has ended and has written at least one weekly CSV
SmardRunWrote ==
    /\ pc = "done"
    /\ \E k \in 1..Len(fetched) : Exists(fs, fetched[k].file)

\* the weather run has ended and has written its CSV
WeatherRunWrote == wpc = "done" /\ Exists(fs, weather_data)

\* C10: a run of merge_csvs_on_time after both extractors have completed and
\* written their CSVs finds both of its inputs among the files they wrote,
\* joins them and writes merged.csv, instead of halting with a not-found or
\* missing-column error.
C10_MergeAfterExtractors ==
    [][(mpc = "start" /\ mpc' # "start" /\ SmardRunWrote /\ WeatherRunWrote)
          => (mpc' = "done" /\ Exists(fs', output_file))]_vars

====
